---- MODULE Spec2Model ----
(***************************************************************************)
(* Model of src/pages/signin/SignInPage.js: the pure render-option         *)
(* resolver getRenderOptions, the welcome-copy branch selection and the    *)
(* render-time SAML redirect of the SignInPage component, re-rendered on   *)
(* every change of its Onyx props (account, credentials, activeClients)    *)
(* and of its local useState flags.                                        *)
(***************************************************************************)
EXTENDS Integers, Sequences, FiniteSets, TLC

VARIABLES
    account,          \* prop account (ONYXKEYS.ACCOUNT), {} by default
    credentials,      \* prop credentials (ONYXKEYS.CREDENTIALS), {} by default
    activeClients,    \* prop activeClients (ONYXKEYS.ACTIVE_CLIENTS), [] by default
    isUsingMagicCode, \* useState(false)
    canUseSAML,       \* Permissions.canUseSAML() of this installation
    platform,         \* getPlatform() of this installation
    navReady,         \* has the promise of Navigation.isNavigationReady() resolved
    pending,          \* .then callbacks attached to the unresolved promise
    navigateCalls,    \* Navigation.navigate(ROUTES.SAML_SIGN_IN) calls executed
    options,          \* the render options destructured by the last render
    welcome,          \* branch of the welcome-copy if/else chain taken by the last render
    streakBroken      \* history: a render without shouldInitiateSAMLLogin followed one with it

vars == <<account, credentials, activeClients, isUsingMagicCode, canUseSAML, platform,
          navReady, pending, navigateCalls, options, welcome, streakBroken>>

----------------------------------------------------------------------------
(* Bounds *)

MaxNavigations == 2

----------------------------------------------------------------------------
(* Values *)

Undefined == "undefined"

LOGIN_FORM == "LoginForm"
VALIDATE_CODE_FORM == "ValidateCodeForm"

PLATFORM_WEB == "web"
PLATFORM_DESKTOP == "desktop"
\* "ios" stands for the native platforms, which the page does not tell apart
Platforms == {PLATFORM_WEB, PLATFORM_DESKTOP, "ios"}

ThisClient == "self"
ClientIDs == {ThisClient, "other"}

\* account: {} or an object carrying the fields the page reads
EmptyAccount == [k \in {} |-> Undefined]

Accounts ==
    {EmptyAccount} \cup
    [validated: BOOLEAN,
     primaryLogin: {Undefined, "a@x.com", "b@x.com"},
     hasEmailDeliveryFailure: BOOLEAN,
     isSAMLEnabled: BOOLEAN,
     isSAMLRequired: BOOLEAN,
     loadingForm: {Undefined, LOGIN_FORM, VALIDATE_CODE_FORM}]

AccountKeys ==
    {"validated", "primaryLogin", "hasEmailDeliveryFailure", "isSAMLEnabled", "isSAMLRequired",
     "loadingForm"}

CredentialValues(key) ==
    IF key = "login" THEN {Undefined, "", "a@x.com"} ELSE {Undefined, "123456"}

Credentials == [login: CredentialValues("login"), validateCode: CredentialValues("validateCode")]

defaultCredentials == [login |-> Undefined, validateCode |-> Undefined]

\* lists of distinct client ids
ActiveClientLists ==
    {<<>>} \cup {<<c>> : c \in ClientIDs}
           \cup {<<c, d>> : <<c, d>> \in {p \in ClientIDs \X ClientIDs : p[1] # p[2]}}

----------------------------------------------------------------------------
(* JavaScript coercions used by the page *)

\* _.isEmpty(account)
isEmpty(obj) == DOMAIN obj = {}

\* account.<key> of a boolean field, through Boolean(): undefined coerces to false
BooleanField(obj, key) == IF key \in DOMAIN obj THEN obj[key] ELSE FALSE

\* account.<key> of a string field: undefined when the key is absent
StringField(obj, key) == IF key \in DOMAIN obj THEN obj[key] ELSE Undefined

\* Boolean(string | undefined): undefined and '' are falsy
BooleanOfString(s) == s \notin {Undefined, ""}

----------------------------------------------------------------------------
(* getRenderOptions *)

hasAccount(in) == ~isEmpty(in.account)

isSAMLEnabled(in) == BooleanField(in.account, "isSAMLEnabled")

isSAMLRequired(in) == BooleanField(in.account, "isSAMLRequired")

hasEmailDeliveryFailure(in) == BooleanField(in.account, "hasEmailDeliveryFailure")

\* the gate of the SAML block
SAMLPermitted(in) ==
    in.canUseSAML \/ in.platform = PLATFORM_WEB \/ in.platform = PLATFORM_DESKTOP

shouldInitiateSAMLLogin(in) ==
    IF SAMLPermitted(in)
    THEN /\ hasAccount(in)
         /\ in.hasLogin
         /\ isSAMLRequired(in)
         /\ StringField(in.account, "loadingForm") = LOGIN_FORM
    ELSE FALSE

shouldShowChooseSSOOrMagicCode_NoMagicCheck(in) ==
    IF SAMLPermitted(in)
    THEN /\ hasAccount(in)
         /\ in.hasLogin
         /\ isSAMLEnabled(in)
         /\ ~isSAMLRequired(in)
    ELSE FALSE

shouldShowChooseSSOOrMagicCode(in) ==
    IF SAMLPermitted(in)
    THEN /\ hasAccount(in)
         /\ in.hasLogin
         /\ isSAMLEnabled(in)
         /\ ~isSAMLRequired(in)
         /\ ~in.isUsingMagicCode
    ELSE FALSE

shouldShowLoginForm_NoOverride(in) ==
    in.isClientTheLeader /\ ~in.hasLogin /\ ~in.hasValidateCode

shouldShowLoginForm_OverrideInverted(in) ==
    IF isSAMLRequired(in) /\ shouldInitiateSAMLLogin(in)
    THEN in.isClientTheLeader
    ELSE in.isClientTheLeader /\ ~in.hasLogin /\ ~in.hasValidateCode

shouldShowLoginForm(in) ==
    IF isSAMLRequired(in) /\ ~shouldInitiateSAMLLogin(in)
    THEN in.isClientTheLeader
    ELSE in.isClientTheLeader /\ ~in.hasLogin /\ ~in.hasValidateCode

shouldShowEmailDeliveryFailurePage_NoLogin(in) ==
    /\ hasEmailDeliveryFailure(in)
    /\ ~shouldShowChooseSSOOrMagicCode(in)
    /\ ~shouldInitiateSAMLLogin(in)

shouldShowEmailDeliveryFailurePage(in) ==
    /\ in.hasLogin
    /\ hasEmailDeliveryFailure(in)
    /\ ~shouldShowChooseSSOOrMagicCode(in)
    /\ ~shouldInitiateSAMLLogin(in)

isUnvalidatedSecondaryLogin_NoFailureCheck(in) ==
    /\ in.hasLogin
    /\ ~in.isPrimaryLogin
    /\ ~BooleanField(in.account, "validated")

isUnvalidatedSecondaryLogin(in) ==
    /\ in.hasLogin
    /\ ~in.isPrimaryLogin
    /\ ~BooleanField(in.account, "validated")
    /\ ~hasEmailDeliveryFailure(in)

shouldShowValidateCodeForm_NoFailureCheck(in) ==
    /\ hasAccount(in)
    /\ (in.hasLogin \/ in.hasValidateCode)
    /\ ~isUnvalidatedSecondaryLogin(in)
    /\ ~shouldShowChooseSSOOrMagicCode(in)
    /\ ~isSAMLRequired(in)

shouldShowValidateCodeForm(in) ==
    /\ hasAccount(in)
    /\ (in.hasLogin \/ in.hasValidateCode)
    /\ ~isUnvalidatedSecondaryLogin(in)
    /\ ~hasEmailDeliveryFailure(in)
    /\ ~shouldShowChooseSSOOrMagicCode(in)
    /\ ~isSAMLRequired(in)

shouldShowWelcomeHeader(in) ==
    \/ shouldShowLoginForm(in)
    \/ shouldShowValidateCodeForm(in)
    \/ shouldShowChooseSSOOrMagicCode(in)
    \/ isUnvalidatedSecondaryLogin(in)

shouldShowWelcomeText(in) ==
    \/ shouldShowLoginForm(in)
    \/ shouldShowValidateCodeForm(in)
    \/ shouldShowChooseSSOOrMagicCode(in)
    \/ ~in.isClientTheLeader

getRenderOptions(in) ==
    [shouldShowLoginForm |-> shouldShowLoginForm(in),
     shouldShowEmailDeliveryFailurePage |-> shouldShowEmailDeliveryFailurePage(in),
     shouldShowUnlinkLoginForm |-> isUnvalidatedSecondaryLogin(in),
     shouldShowValidateCodeForm |-> shouldShowValidateCodeForm(in),
     shouldShowChooseSSOOrMagicCode |-> shouldShowChooseSSOOrMagicCode(in),
     shouldInitiateSAMLLogin |-> shouldInitiateSAMLLogin(in),
     shouldShowWelcomeHeader |-> shouldShowWelcomeHeader(in),
     shouldShowWelcomeText |-> shouldShowWelcomeText(in)]

----------------------------------------------------------------------------
(* SignInPage *)

\* activeClients && ActiveClientManager.isClientTheLeader(): the leader is the
\* single client, among those listed, that performs the exclusive actions
isClientTheLeader(clients) ==
    /\ Len(clients) > 0
    /\ clients[Len(clients)] = ThisClient

\* !account.primaryLogin || account.primaryLogin === credentials.login
isPrimaryLogin(acc, cred) ==
    \/ ~BooleanOfString(StringField(acc, "primaryLogin"))
    \/ StringField(acc, "primaryLogin") = cred.login

\* the argument object of the getRenderOptions call
RenderInput(acc, cred, clients, magic, beta, plat) ==
    [hasLogin |-> BooleanOfString(cred.login),
     hasValidateCode |-> BooleanOfString(cred.validateCode),
     account |-> acc,
     isPrimaryLogin |-> isPrimaryLogin(acc, cred),
     isUsingMagicCode |-> magic,
     isClientTheLeader |-> isClientTheLeader(clients),
     canUseSAML |-> beta,
     platform |-> plat]

\* the if/else chain choosing the welcome copy
WelcomeBranch(o, leader) ==
    IF ~leader THEN "anotherLoginPageIsOpen"
    ELSE IF o.shouldShowLoginForm THEN "getStarted"
    ELSE IF o.shouldShowValidateCodeForm THEN "enterCode"
    ELSE IF \/ o.shouldShowUnlinkLoginForm
            \/ o.shouldShowEmailDeliveryFailurePage
            \/ o.shouldShowChooseSSOOrMagicCode THEN "welcomeBack"
    ELSE IF ~o.shouldInitiateSAMLLogin THEN "unexpectedState"
    ELSE "none"

SchedulesSAMLNavigation_Always(o) == TRUE

\* if (shouldInitiateSAMLLogin) { Navigation.isNavigationReady().then(...) }
SchedulesSAMLNavigation(o) == o.shouldInitiateSAMLLogin

\* the children mounted by the JSX of the page
FormFlags ==
    {"shouldShowLoginForm", "shouldShowValidateCodeForm", "shouldShowUnlinkLoginForm",
     "shouldShowChooseSSOOrMagicCode", "shouldShowEmailDeliveryFailurePage"}

RenderedForms(o) == {f \in FormFlags : o[f]}

\* One execution of the function component with the given props and state.
\* A callback attached to an already resolved promise runs right after the render.
Render(acc, cred, clients, magic) ==
    /\ options' = getRenderOptions(RenderInput(acc, cred, clients, magic, canUseSAML, platform))
    /\ welcome' = WelcomeBranch(options', isClientTheLeader(clients))
    /\ streakBroken' = (streakBroken \/ (options.shouldInitiateSAMLLogin /\ ~options'.shouldInitiateSAMLLogin))
    /\ IF SchedulesSAMLNavigation(options')
       THEN /\ pending + navigateCalls < MaxNavigations
            /\ IF navReady
               THEN navigateCalls' = navigateCalls + 1 /\ pending' = pending
               ELSE pending' = pending + 1 /\ navigateCalls' = navigateCalls
       ELSE UNCHANGED <<pending, navigateCalls>>

Init ==
    /\ account = EmptyAccount
    /\ credentials = defaultCredentials
    /\ activeClients = <<>>
    /\ isUsingMagicCode = FALSE
    /\ canUseSAML \in BOOLEAN
    /\ platform \in Platforms
    /\ navReady = FALSE
    /\ pending = 0
    /\ navigateCalls = 0
    /\ options = getRenderOptions(RenderInput(EmptyAccount, defaultCredentials, <<>>, FALSE,
                                              canUseSAML, platform))
    /\ welcome = WelcomeBranch(options, isClientTheLeader(<<>>))
    /\ streakBroken = FALSE

\* values Onyx.merge can write under a key of the account
AccountFieldValues(key) ==
    IF key = "primaryLogin" THEN {Undefined, "a@x.com", "b@x.com"}
    ELSE IF key = "loadingForm" THEN {Undefined, LOGIN_FORM, VALIDATE_CODE_FORM}
    ELSE BOOLEAN

\* the account after Onyx.merge(ONYXKEYS.ACCOUNT, {[key]: value}); a key never
\* written reads as undefined, which the page coerces to false
MergeAccount(acc, key, value) ==
    [k \in AccountKeys |-> IF k = key THEN value
                           ELSE IF k = "primaryLogin" \/ k = "loadingForm" THEN StringField(acc, k)
                           ELSE BooleanField(acc, k)]

\* Onyx pushes an account with one key merged
AccountChanged ==
    \E key \in AccountKeys : \E value \in AccountFieldValues(key) :
        LET acc == MergeAccount(account, key, value) IN
        /\ acc # account
        /\ account' = acc
        /\ Render(acc, credentials, activeClients, isUsingMagicCode)
        /\ UNCHANGED <<credentials, activeClients, isUsingMagicCode, canUseSAML, platform, navReady>>

\* Onyx pushes the cleared account: the prop falls back to defaultProps.account
AccountCleared ==
    /\ account # EmptyAccount
    /\ account' = EmptyAccount
    /\ Render(EmptyAccount, credentials, activeClients, isUsingMagicCode)
    /\ UNCHANGED <<credentials, activeClients, isUsingMagicCode, canUseSAML, platform, navReady>>

\* Onyx pushes credentials with one key merged
CredentialsChanged ==
    \E key \in {"login", "validateCode"} : \E value \in CredentialValues(key) :
        LET cred == [credentials EXCEPT ![key] = value] IN
        /\ cred # credentials
        /\ credentials' = cred
        /\ Render(account, cred, activeClients, isUsingMagicCode)
        /\ UNCHANGED <<account, activeClients, isUsingMagicCode, canUseSAML, platform, navReady>>

\* Onyx pushes a new list of active clients
ActiveClientsChanged ==
    \E clients \in ActiveClientLists :
        /\ clients # activeClients
        /\ activeClients' = clients
        /\ Render(account, credentials, clients, isUsingMagicCode)
        /\ UNCHANGED <<account, credentials, isUsingMagicCode, canUseSAML, platform, navReady>>

\* ValidateCodeForm or ChooseSSOOrMagicCode, when mounted, calls setIsUsingMagicCode
SetIsUsingMagicCode ==
    \E magic \in BOOLEAN :
        /\ options.shouldShowValidateCodeForm \/ options.shouldShowChooseSSOOrMagicCode
        /\ magic # isUsingMagicCode
        /\ isUsingMagicCode' = magic
        /\ Render(account, credentials, activeClients, magic)
        /\ UNCHANGED <<account, credentials, activeClients, canUseSAML, platform, navReady>>

\* the promise of Navigation.isNavigationReady() resolves: every attached callback runs
NavigationReady ==
    /\ ~navReady
    /\ navReady' = TRUE
    /\ navigateCalls' = navigateCalls + pending
    /\ pending' = 0
    /\ UNCHANGED <<account, credentials, activeClients, isUsingMagicCode, canUseSAML, platform,
                   options, welcome, streakBroken>>

Next ==
    \/ AccountChanged
    \/ AccountCleared
    \/ CredentialsChanged
    \/ ActiveClientsChanged
    \/ SetIsUsingMagicCode
    \/ NavigationReady

Spec == Init /\ [][Next]_vars

TypeOK ==
    /\ account \in Accounts
    /\ credentials \in Credentials
    /\ activeClients \in ActiveClientLists
    /\ isUsingMagicCode \in BOOLEAN
    /\ pending \in 0..MaxNavigations
    /\ navigateCalls \in 0..MaxNavigations

----------------------------------------------------------------------------
(* Properties *)

\* the input the last render passed to getRenderOptions
CurrentInput ==
    RenderInput(account, credentials, activeClients, isUsingMagicCode, canUseSAML, platform)

\* C1: after every render at most one of the five forms LoginForm,
\* ValidateCodeForm, UnlinkLoginForm, ChooseSSOOrMagicCode and
\* EmailDeliveryFailurePage is shown.
C1_AtMostOneForm == Cardinality(RenderedForms(options)) <= 1

C2_Case ==
    /\ hasEmailDeliveryFailure(CurrentInput)
    /\ CurrentInput.hasLogin
    /\ ~isSAMLEnabled(CurrentInput)

\* C2 as stated: with an email delivery failure, a login and SAML not enabled,
\* the email-delivery-failure page is shown and the validate-code form is not,
\* whatever isSAMLRequired, loadingForm and the platform gate are.
C2_FailurePageAlways ==
    C2_Case => /\ options.shouldShowEmailDeliveryFailurePage
               /\ ~options.shouldShowValidateCodeForm

\* C2 amended: in that case the validate-code form is never shown, and the
\* email-delivery-failure page is shown exactly when the SAML login is not
\* being initiated.
C2_FailurePageUnlessSAML ==
    C2_Case => /\ options.shouldShowEmailDeliveryFailurePage = ~options.shouldInitiateSAMLLogin
               /\ ~options.shouldShowValidateCodeForm

C2_Witness ==
    /\ C2_Case
    /\ isSAMLRequired(CurrentInput)
    /\ ~options.shouldInitiateSAMLLogin
    /\ options.shouldShowEmailDeliveryFailurePage

\* C3: while shouldInitiateSAMLLogin has stayed true over the re-renders, at
\* most one Navigation.navigate(SAML_SIGN_IN) call is executed.
C3_OneNavigationPerStreak == ~streakBroken => navigateCalls <= 1

\* C4: a Navigation.navigate(SAML_SIGN_IN) call is only executed on a client
\* that is the leader.
C4_OnlyLeaderNavigates ==
    [][navigateCalls' > navigateCalls => isClientTheLeader(activeClients')]_vars

\* C5: when SAML is required and the SAML login is not being initiated, the
\* login form is shown exactly on the leader client, whatever hasLogin and
\* hasValidateCode are.
C5_LoginFormIsLeader ==
    (isSAMLRequired(CurrentInput) /\ ~options.shouldInitiateSAMLLogin)
        => options.shouldShowLoginForm = CurrentInput.isClientTheLeader

C5_Witness ==
    /\ isSAMLRequired(CurrentInput)
    /\ ~options.shouldInitiateSAMLLogin
    /\ CurrentInput.hasLogin
    /\ CurrentInput.hasValidateCode
    /\ CurrentInput.isClientTheLeader
    /\ options.shouldShowLoginForm

\* C6: without login and validate code, the leader client shows the login form
\* and none of the four other forms.
C6_OnlyLoginForm ==
    (~CurrentInput.hasLogin /\ ~CurrentInput.hasValidateCode /\ CurrentInput.isClientTheLeader)
        => RenderedForms(options) = {"shouldShowLoginForm"}

C6_Witness ==
    /\ ~CurrentInput.hasLogin
    /\ ~CurrentInput.hasValidateCode
    /\ CurrentInput.isClientTheLeader
    /\ ~isEmpty(account)
    /\ hasEmailDeliveryFailure(CurrentInput)
    /\ options.shouldShowLoginForm

C7_Case ==
    /\ SAMLPermitted(CurrentInput)
    /\ isSAMLEnabled(CurrentInput)
    /\ ~isSAMLRequired(CurrentInput)
    /\ CurrentInput.hasLogin

SomeBranchFlag ==
    \/ options.shouldShowLoginForm
    \/ options.shouldShowValidateCodeForm
    \/ options.shouldShowUnlinkLoginForm
    \/ options.shouldShowEmailDeliveryFailurePage
    \/ options.shouldShowChooseSSOOrMagicCode
    \/ options.shouldInitiateSAMLLogin

C9_NavigateOnlyWhileWanted ==
    [][navigateCalls' > navigateCalls => options'.shouldInitiateSAMLLogin]_vars

\* C9 amended: a navigation is scheduled only by a render with
\* shouldInitiateSAMLLogin, and is executed either right after such a render
\* when the navigation layer is ready, or, for every callback scheduled
\* before, when the layer reports ready, whatever the options are by then.
C9_NavigateOnlyIfScheduled ==
    [][/\ pending' > pending => options'.shouldInitiateSAMLLogin
       /\ navigateCalls' > navigateCalls =>
            \/ navReady /\ options'.shouldInitiateSAMLLogin /\ navigateCalls' = navigateCalls + 1
            \/ ~navReady /\ navReady' /\ navigateCalls' = navigateCalls + pending]_vars

C9_Witness ==
    /\ navReady
    /\ navigateCalls = MaxNavigations
    /\ pending = 0
    /\ streakBroken
    /\ ~options.shouldInitiateSAMLLogin

\* C10: the unlink-login form and the email-delivery-failure page are never
\* shown together; an unvalidated secondary login with an email delivery
\* failure gets no unlink form, and the failure page unless the chooser or the
\* SAML login suppresses it.
C10_UnlinkExcludesFailurePage ==
    /\ ~(options.shouldShowUnlinkLoginForm /\ options.shouldShowEmailDeliveryFailurePage)
    /\ (/\ CurrentInput.hasLogin
        /\ ~CurrentInput.isPrimaryLogin
        /\ ~BooleanField(account, "validated")
        /\ hasEmailDeliveryFailure(CurrentInput))
          => /\ ~options.shouldShowUnlinkLoginForm
             /\ options.shouldShowEmailDeliveryFailurePage =
                  (~options.shouldShowChooseSSOOrMagicCode /\ ~options.shouldInitiateSAMLLogin)

C10_Witness ==
    /\ CurrentInput.hasLogin
    /\ ~CurrentInput.isPrimaryLogin
    /\ ~BooleanField(account, "validated")
    /\ hasEmailDeliveryFailure(CurrentInput)
    /\ options.shouldShowEmailDeliveryFailurePage
    /\ ~options.shouldShowUnlinkLoginForm

====
